---- MODULE Spec2Model ----
(***************************************************************************)
(* Model of esp32_mini_game (main.py): four debounced buttons, a countdown *)
(* display, two challenge protocols and the orchestrator, all running as   *)
(* cooperative tasks that hand the next game phase over through a          *)
(* SimpleQueue.  One action is the run of one task from a suspension point *)
(* (sleep, Event.wait, await task) to the next; while the orchestrator is  *)
(* between suspension points no other task steps.                          *)
(***************************************************************************)
EXTENDS Integers, Sequences, FiniteSets, TLC

\* ---------------------------------------------------------------- bounds
\* A button callback enqueues a transfer only while the hand-off queue is shorter.
MaxQueue == 2
\* A button callback records a timestamp only while the timing queue is shorter.
MaxTimeQueue == 2
\* time.time() readings are 0..MaxTime (whole seconds, as MicroPython gives them).
MaxTime == 1
\* game(time = 60 * 3): an even number of seconds, twice HalfGameTime here.
HalfGameTime == 1
\* Items put and getters of the stand-alone SimpleQueue specification.
MaxItems == 3
NumGetters == 2

\* ---------------------------------------------------- program constants
\* game(time = 60 * 3)
GameTime == 2 * HalfGameTime

\* divmod(second, 60) and the borrow "self.second = 59"
SecondsPerMinute == 60

Buttons == {"up_left", "up_right", "down_left", "down_right"}

\* order of the stop() calls in game_over / game_win
StopOrder == <<"up_left", "up_right", "down_left", "down_right">>

\* the button list indexed by code position / by sum(code) - 1 in morse()
MorseOrder == <<"up_left", "down_right", "up_right", "down_left">>

\* main(): the start button for position_for_start 0..3
StartOrder == <<"up_left", "up_right", "down_left", "down_right">>

\* pitch(): [[down_left, down_right], [up_left, up_right]][up][right]
PitchGrid(up, right) ==
    IF up = 0 THEN (IF right = 0 THEN "down_left" ELSE "down_right")
              ELSE (IF right = 0 THEN "up_left" ELSE "up_right")

\* pitch() mode 1: [down_left, up_right][right]
PitchPair(right) == IF right = 0 THEN "down_left" ELSE "up_right"

\* ------------------------------------------------------------ callbacks
\* A callback is the coroutine function bound to a button edge.  q tells
\* which timing queue a record_* closure puts into: 1 the time_queue of the
\* running protocol, 0 that of a call that has returned (0 otherwise too).
CbNone == [f |-> "None", q |-> 0]
CbLose == [f |-> "transfer_to_lose", q |-> 0]
CbWin == [f |-> "transfer_to_win", q |-> 0]
CbGame == [f |-> "transfer_to_game", q |-> 0]
CbPress(q) == [f |-> "record_press_time", q |-> q]
CbRelease(q) == [f |-> "record_release_time", q |-> q]

\* set_all_buttons_with(func), then b.set_on_pressed(cb)
WireAll(func, b, cb) == [x \in Buttons |-> IF x = b THEN cb ELSE func]

\* -------------------------------------------------------- display output
\* numbers(minute, second)
ShowTime(m, s) == [kind |-> "time", minute |-> m, second |-> s, glyph |-> 0]

\* write([0, 0, 0, 0])
ShowBlank == [kind |-> "blank", minute |-> 0, second |-> 0, glyph |-> 0]

\* write([0b11111111] * 4)
ShowFull == [kind |-> "full", minute |-> 0, second |-> 0, glyph |-> 0]

\* main(): write(t), the hint glyph of start position p
ShowGlyph(p) == [kind |-> "glyph", minute |-> 0, second |-> 0, glyph |-> p]

\* ---------------------------------------------------------- SimpleQueue
\* SimpleQueue(): empty list and a cleared Event
SQ_new == [_queue |-> <<>>, _ev |-> FALSE]

SQ_qsize(q) == Len(q._queue)

SQ_empty(q) == Len(q._queue) = 0

\* put: append, then set the event
SQ_put(q, item) == [_queue |-> Append(q._queue, item), _ev |-> TRUE]

\* variants of the tail of get()
SQ_get_lifo(q) ==
    LET n == Len(q._queue)
        rest == SubSeq(q._queue, 1, n - 1)
    IN [item |-> q._queue[n],
        q |-> [_queue |-> rest, _ev |-> IF Len(rest) = 0 THEN FALSE ELSE q._ev]]

SQ_get_noclear(q) ==
    [item |-> Head(q._queue), q |-> [_queue |-> Tail(q._queue), _ev |-> q._ev]]

\* the tail of get() once the queue is not empty: pop(0), clear the event
\* if that emptied the queue, return the item
SQ_get(q) ==
    LET rest == Tail(q._queue)
    IN [item |-> Head(q._queue),
        q |-> [_queue |-> rest, _ev |-> IF Len(rest) = 0 THEN FALSE ELSE q._ev]]

\* ------------------------------------------------------------ variables
VARIABLES
    transfer_queue,     \* the hand-off SimpleQueue of phase continuations
    time_queue,         \* the timing SimpleQueue of the running protocol
    loop_runing,        \* AsyncLooping.loop_runing of the buttons and the display
    btask,              \* the loop task of each button: "sleep" or "done"
    state,              \* Button.state
    on_pressed,         \* Button.on_pressed
    on_released,        \* Button.on_released
    minute, second,     \* DigitalDisplay counters
    timeup_callback,    \* DigitalDisplay.timeup_callback
    is_pause, is_show,  \* DigitalDisplay flags
    display_out,        \* what the display shows
    dtask,              \* the display loop activities ever spawned, by index
    d_loop_task,        \* DigitalDisplay.loop_task: index into dtask, 0 = None
    dlast,              \* the display loop activity that ran last, 0 = none yet
    play_task,          \* the tone-sequence task: "None", "playing", "cancelled"
    mainPc,             \* where the orchestrator task is
    cur,                \* the continuation main is awaiting ("none" at get)
    stop_i,             \* game_over / game_win: index of the stop() call
    mode, code, long, up, right, iter, press_time, release_time,  \* locals of morse / pitch
    \* history
    wiring,             \* which code wired the buttons last
    proto_puts,         \* the outcomes the running protocol has put so far
    outcome_put,        \* a game_win / game_over was put since the challenge began
    timed_out,          \* the display fired its time-up callback
    resolved,           \* the resolutions main has started
    ran,                \* tasks that ran since main was made runnable
    \* stand-alone SimpleQueue specification
    hq,                 \* the SimpleQueue under test
    gpc,                \* where each get() caller is
    delivered,          \* what get() returned, to whom, in order
    nput,               \* number of put() calls so far
    rewaited            \* a woken get() found the queue empty and waited again

gameVars == <<transfer_queue, time_queue, loop_runing, btask,
              state, on_pressed, on_released, minute, second, timeup_callback,
              is_pause, is_show, display_out, dtask, d_loop_task, dlast, play_task,
              mainPc, cur, stop_i, mode, code, long, up,
              right, iter, press_time, release_time, wiring, proto_puts, outcome_put,
              timed_out, resolved, ran>>

queueVars == <<hq, gpc, delivered, nput, rewaited>>

displayVars == <<minute, second, timeup_callback, is_pause, is_show, display_out>>

buttonVars == <<btask, state, on_pressed, on_released>>

localVars == <<mode, code, long, up, right, iter, press_time, release_time>>

vars == <<gameVars, queueVars>>

\* ------------------------------------------------------------- scheduling
\* pcs at which the orchestrator task is suspended (sleep, Event.wait, await
\* of a task); at every other pc it is the running task.
Suspended == {"get_wait", "m_sleep", "m_wait_rel", "p_sleep", "p_wait_rel",
              "stop_wait", "sound", "sleep600"}

\* Another task runs only while main is suspended; after the IndexError of
\* pitch() has left asyncio.run(main()) nothing runs any more.
OthersMayRun == mainPc \in Suspended

Outcomes == {"game_win", "game_over"}

\* variant: game_over() without "await digital_display.stop()"
StopTargetsButtonsOnly(phase) == StopOrder

\* the stop() calls of a resolution, in order
StopTargets(phase) ==
    IF phase = "game_over" THEN StopOrder \o <<"digital_display">> ELSE StopOrder

\* variant: stop() without "await self.loop_task"
LoopExitedNoWait(x) == TRUE

\* "await self.loop_task" returns at once when the task has finished (and
\* stop() skips it when loop_task is None)
LoopExited(x) ==
    IF x = "digital_display"
    THEN d_loop_task = 0 \/ dtask[d_loop_task] = "done"
    ELSE btask[x] = "done"

\* Main has been made runnable: the event it waits on was set by put(), or
\* the loop task it awaits has finished.
MainRunnable ==
    \/ mainPc = "get_wait" /\ transfer_queue._ev
    \/ mainPc \in {"m_wait_rel", "p_wait_rel"} /\ time_queue._ev
    \/ mainPc = "stop_wait" /\ LoopExited(StopTargets(cur)[stop_i])

NoneRan == [b |-> {}, d |-> {}]

\* The run queue is ordered by due time.  Main, once made runnable, is due
\* at that moment, and a task that runs goes back to sleep and is due
\* later: each other task runs at most once before main does.
MayRun(kind, x) == OthersMayRun /\ (MainRunnable => x \notin ran[kind])

\* ran after task x of that kind has run (runnable: main is runnable then)
RanAfter(kind, x, runnable) ==
    IF ~runnable THEN NoneRan
    ELSE LET r == IF MainRunnable THEN ran ELSE NoneRan
         IN [r EXCEPT ![kind] = @ \cup {x}]

\* A loop task that start() has just created is runnable from then on: it
\* runs before a sleeping task of the same period wakes and before main,
\* once suspended, runs again.
NoFreshLoop == \A i \in 1..MaxQueue : dtask[i] # "start"

\* Display loop activities wake in the order they were started and, having
\* the same sleep period, take turns from then on.
DisplayTurn(i) ==
    /\ \A j \in 1..MaxQueue : (dtask[j] = "start" /\ dtask[i] = "start") => i <= j
    /\ dtask[i] # "start" => NoFreshLoop
    /\ (\E j \in 1..MaxQueue : j # i /\ dtask[j] \in {"sleep", "psleep"})
          => dlast # i

\* death_sound() / win_sound() and sleep(600) last longer than a sleep of
\* the display loop: when they end every display loop activity has run
\* since the flags were last changed (pause() or stop() before them).
LongSleepOver ==
    \A i \in 1..MaxQueue :
        /\ dtask[i] # "sleep"
        /\ ~loop_runing["digital_display"] => dtask[i] # "psleep"

\* -------------------------------------------------------------- Init
\* The state when main() first reaches transfer_queue.get(): the four button
\* tasks sleep in their loop, every button is wired to transfer_to_lose
\* except the start button (drawn by random.randint(0, 3)), the display
\* shows the hint glyph.
Init ==
    /\ transfer_queue = SQ_new
    /\ time_queue = SQ_new
    /\ loop_runing = [x \in Buttons \cup {"digital_display"} |-> x \in Buttons]
    /\ btask = [b \in Buttons |-> "sleep"]
    /\ state = [b \in Buttons |-> FALSE]
    /\ \E position_for_start \in 0..3 :
         /\ on_pressed = WireAll(CbLose, StartOrder[position_for_start + 1], CbGame)
         /\ display_out = ShowGlyph(position_for_start)
    /\ on_released = [b \in Buttons |-> CbNone]
    /\ minute = 0
    /\ second = 0
    /\ timeup_callback = CbNone
    /\ is_pause = FALSE
    /\ is_show = TRUE
    /\ dtask = [i \in 1..MaxQueue |-> "none"]
    /\ d_loop_task = 0
    /\ dlast = 0
    /\ play_task = "None"
    /\ mainPc = "get_wait"
    /\ cur = "none"
    /\ stop_i = 0
    /\ mode = 0
    /\ code = <<0, 0, 0, 0>>
    /\ long = 0
    /\ up = 0
    /\ right = 0
    /\ iter = 0
    /\ press_time = 0
    /\ release_time = 0
    /\ wiring = "init"
    /\ proto_puts = <<>>
    /\ outcome_put = FALSE
    /\ timed_out = FALSE
    /\ resolved = {}
    /\ ran = NoneRan
    /\ hq = SQ_new
    /\ gpc = [g \in 1..NumGetters |-> "idle"]
    /\ delivered = <<>>
    /\ nput = 0
    /\ rewaited = FALSE

\* ------------------------------------------------------------ callbacks
\* The continuation a transfer callback puts on the hand-off queue.
TransferItem(cb) ==
    CASE cb.f = "transfer_to_win" -> "game_win"
      [] cb.f = "transfer_to_lose" -> "game_over"
      [] cb.f = "transfer_to_game" -> "game"
      [] OTHER -> "none"

\* The label a record_* closure puts with its timestamp.
RecordKind(cb) ==
    CASE cb.f = "record_press_time" -> "press"
      [] cb.f = "record_release_time" -> "release"
      [] OTHER -> "none"

\* transfer_to_win / transfer_to_lose / transfer_to_game: the hand-off queue
\* after "await cb()".
TransferAfter(cb) ==
    IF TransferItem(cb) = "none" THEN transfer_queue
    ELSE SQ_put(transfer_queue, TransferItem(cb))

\* record_press_time / record_release_time: the protocol's timing queue
\* after "await cb()" at clock reading t.  A closure of a call that has
\* returned puts into that call's queue, which nothing reads any more.
TimeAfter(cb, t) ==
    IF RecordKind(cb) = "none" \/ cb.q # 1 THEN time_queue
    ELSE SQ_put(time_queue, [t |-> t, kind |-> RecordKind(cb)])

\* Bound on what the buttons enqueue while nothing consumes it.
CanInvoke(cb) ==
    /\ TransferItem(cb) # "none" => SQ_qsize(transfer_queue) < MaxQueue
    /\ (RecordKind(cb) # "none" /\ cb.q = 1)
          => SQ_qsize(time_queue) < MaxTimeQueue

\* outcome_put after a callback has put item (or "none") on the hand-off queue
PutAfter(item) == outcome_put \/ (item \in Outcomes /\ wiring # "init")

\* --------------------------------------------------------- Button.loop
\* variant: the change test dropped
ChangedAlways(is_pressed, st) == TRUE

\* "if not is_pressed ^ self.state: continue"
Changed(is_pressed, st) == is_pressed # st

\* One pass of Button.loop from the end of sleep(0.01) to the next sleep
\* (or to the exit of the while once loop_runing is cleared): sample the
\* pin, on a change store it and await the callback of that edge.
Poll(b) ==
    /\ MayRun("b", b)
    /\ btask[b] = "sleep"
    /\ \E raw \in {0, 1}, t \in 0..MaxTime :
         LET is_pressed == (raw = 0)
             edge == Changed(is_pressed, state[b])
             cb == IF ~edge THEN CbNone
                   ELSE IF is_pressed THEN on_pressed[b] ELSE on_released[b]
         IN /\ CanInvoke(cb)
            /\ (RecordKind(cb) = "none" \/ cb.q # 1) => t = 0
            /\ state' = [state EXCEPT ![b] = IF edge THEN is_pressed ELSE @]
            /\ transfer_queue' = TransferAfter(cb)
            /\ time_queue' = TimeAfter(cb, t)
            /\ outcome_put' = PutAfter(TransferItem(cb))
    /\ btask' = [btask EXCEPT ![b] = IF loop_runing[b] THEN "sleep" ELSE "done"]
    /\ UNCHANGED <<loop_runing, on_pressed, on_released,
                   displayVars, dtask, d_loop_task, play_task, mainPc, cur, stop_i, localVars, wiring, proto_puts, timed_out,
                   resolved>>
    /\ ran' = RanAfter("b", b, MainRunnable')
    /\ UNCHANGED <<dlast, queueVars>>

PollButtons == \E b \in Buttons : Poll(b)

\* ------------------------------------------------- DigitalDisplay.loop
\* set_time(second, minute = 0)
SetTime(sec) ==
    [second |-> sec % SecondsPerMinute, minute |-> 0 + (sec \div SecondsPerMinute)]

\* the running branch: second -= 1, borrow from the minute, clamp the minute
Decrement(m, s) ==
    LET s1 == s - 1
        s2 == IF s1 < 0 THEN SecondsPerMinute - 1 ELSE s1
        m1 == IF s1 < 0 THEN m - 1 ELSE m
        m2 == IF m1 < 0 THEN 0 ELSE m1
    IN [minute |-> m2, second |-> s2]

\* variant: the time-up branch leaves loop_runing alone
RunningAfterKeep(timeup, running) == running

\* "self.loop_runing = False" of the time-up branch
RunningAfter(timeup, running) == IF timeup THEN FALSE ELSE running

\* variant: the "if self.is_pause" branch missing
AfterWhileNoPause(running, paused) == IF ~running THEN "done" ELSE "sleep"

\* the while test and the branch taken: where the loop suspends next
AfterWhile(running, paused) ==
    IF ~running THEN "done" ELSE IF paused THEN "psleep" ELSE "sleep"

\* One run of display loop activity i from a suspension point to the next:
\* after sleep(1) the time-up test (clear loop_runing, await the callback),
\* after sleep(0.5) the blink, then the while test and the branch it takes
\* up to its sleep.
DisplayStep(i) ==
    /\ MayRun("d", i)
    /\ dtask[i] \in {"start", "sleep", "psleep"}
    /\ DisplayTurn(i)
    /\ dlast' = i
    /\ LET timeup == dtask[i] = "sleep" /\ second = 0 /\ minute = 0
           fire == timeup /\ timeup_callback # CbNone
           running == RunningAfter(timeup, loop_runing["digital_display"])
           show == IF dtask[i] = "psleep" THEN ~is_show ELSE is_show
           out == IF dtask[i] # "psleep" THEN display_out
                  ELSE IF show THEN ShowTime(minute, second) ELSE ShowBlank
           next == AfterWhile(running, is_pause)
           dec == Decrement(minute, second)
       IN /\ loop_runing' = [loop_runing EXCEPT !["digital_display"] = running]
          /\ transfer_queue' = IF fire THEN TransferAfter(timeup_callback)
                               ELSE transfer_queue
          /\ is_show' = show
          /\ minute' = IF next = "sleep" THEN dec.minute ELSE minute
          /\ second' = IF next = "sleep" THEN dec.second ELSE second
          /\ display_out' = IF next = "sleep" THEN ShowTime(dec.minute, dec.second)
                            ELSE out
          /\ dtask' = [dtask EXCEPT ![i] = next]
          /\ timed_out' = (timed_out \/ fire)
          /\ outcome_put' = IF fire THEN PutAfter(TransferItem(timeup_callback))
                            ELSE outcome_put
    /\ UNCHANGED <<time_queue, buttonVars, timeup_callback, is_pause,
                   d_loop_task, play_task, mainPc, cur, stop_i,
                   localVars, wiring, proto_puts, resolved>>
    /\ ran' = RanAfter("d", i, MainRunnable')
    /\ UNCHANGED queueVars

DisplayLoop == \E i \in 1..MaxQueue : DisplayStep(i)

\* ------------------------------------------------------------- main()
\* "transfer = await transfer_queue.get()" when a phase has returned: with
\* an item queued main goes on without suspending, otherwise it suspends in
\* self._ev.wait().
AtGet(q) == IF SQ_empty(q) THEN "get_wait" ELSE "get"

\* what every step of the orchestrator task leaves alone
MainFrame ==
    /\ mainPc \in Suspended => NoFreshLoop
    /\ mainPc \in {"sound", "sleep600"} => LongSleepOver
    /\ ran' = NoneRan
    /\ UNCHANGED <<timed_out, dlast>>
    /\ UNCHANGED queueVars

\* main() lines 430-434: get() returns the oldest continuation (at once, or
\* after put() has set the event main waits on) and main awaits it.
MainGet ==
    /\ \/ mainPc = "get"
       \/ mainPc = "get_wait" /\ transfer_queue._ev
    /\ ~SQ_empty(transfer_queue)
    /\ LET r == SQ_get(transfer_queue)
       IN /\ transfer_queue' = r.q
          /\ cur' = r.item
          /\ mainPc' = r.item
    /\ UNCHANGED <<time_queue, loop_runing, buttonVars, displayVars,
                   dtask, d_loop_task, play_task, stop_i, localVars, wiring,
                   proto_puts,
                   outcome_put, resolved>>
    /\ MainFrame

\* game(): arm the display (callback, time, start) and enqueue a challenge.
Game ==
    /\ mainPc = "game"
    /\ LET idx == Cardinality({i \in 1..MaxQueue : dtask[i] # "none"}) + 1
           tm == SetTime(GameTime)
       IN /\ timeup_callback' = CbLose
          /\ second' = tm.second
          /\ minute' = tm.minute
          /\ loop_runing' = [loop_runing EXCEPT !["digital_display"] = TRUE]
          /\ dtask' = [dtask EXCEPT ![idx] = "start"]
          /\ d_loop_task' = idx
    /\ \E r \in {0, 1} :
         transfer_queue' = SQ_put(transfer_queue, IF r = 1 THEN "morse" ELSE "pitch")
    /\ mainPc' = "get"
    /\ cur' = "none"
    /\ UNCHANGED <<time_queue, buttonVars, is_pause, is_show,
                   display_out, play_task, stop_i, localVars, wiring, proto_puts,
                   outcome_put, resolved>>
    /\ MainFrame

\* --------------------------------------------------------- challenges
Sum(c) == c[1] + c[2] + c[3] + c[4]

\* Python list indexing: seq[k], a negative k counts from the end
PyIndex(seq, k) == seq[(IF k < 0 THEN k + Len(seq) ELSE k) + 1]

\* variant: the "- 1" of "count = sum(code) - 1" forgotten
ShortWinButtonOffByOne(c) == PyIndex(MorseOrder, Sum(c) % 4)

\* morse() short mode: count = sum(code) - 1; b = [...][count]
ShortWinButton(c) == PyIndex(MorseOrder, Sum(c) - 1)

\* "is_hold_long = hold_time > 0.5", hold_time a whole number of seconds
IsLong(hold) == 2 * hold > 1

\* morse(): hold_time = abs(release_time - press_time)
MorseHold(press, release) ==
    IF release - press < 0 THEN press - release ELSE release - press

\* variant: abs() as in morse()
PitchHoldAbs(press, release) == MorseHold(press, release)

\* pitch(): hold_time = release_time - press_time
PitchHold(press, release) == release - press

\* "if time_queue._queue[0][1] == 'release': await time_queue.get()"
DropLeadingRelease(q) ==
    IF q._queue[1].kind = "release" THEN SQ_get(q).q ELSE q

\* The record_* closures refer to the variable time_queue of the call of
\* morse() / pitch() that made them: within that call they follow every
\* rebinding "time_queue = SimpleQueue()", and once the call has returned
\* they put into a queue nothing reads any more.
Stale(cbs) ==
    [x \in Buttons |-> IF RecordKind(cbs[x]) = "none" THEN cbs[x]
                       ELSE [cbs[x] EXCEPT !.q = 0]]

NoLocals ==
    /\ mode' = 0
    /\ code' = <<0, 0, 0, 0>>
    /\ long' = 0
    /\ up' = 0
    /\ right' = 0
    /\ iter' = 0
    /\ press_time' = 0
    /\ release_time' = 0

\* morse() lines 266-274: draw mode and code, start the hint tones.
Morse ==
    /\ mainPc = "morse"
    /\ \E md \in {0, 1}, bits \in [1..4 -> {0, 1}], k \in 1..4 :
         /\ mode' = md
         /\ code' = [bits EXCEPT ![k] = 1]
         /\ mainPc' = IF md = 0 THEN "m_short" ELSE "m_iter"
         /\ iter' = IF md = 0 THEN 0 ELSE 1
    /\ play_task' = "playing"
    /\ proto_puts' = <<>>
    /\ outcome_put' = FALSE
    /\ UNCHANGED <<transfer_queue, time_queue, loop_runing, buttonVars,
                   displayVars, dtask, d_loop_task, cur, stop_i, long, up, right,
                   press_time, release_time, wiring, resolved>>
    /\ MainFrame

\* morse() lines 277-286, short mode: every button to LOSE, the button
\* indexed by sum(code) - 1 to WIN.
MorseShort ==
    /\ mainPc = "m_short"
    /\ on_pressed' = WireAll(CbLose, ShortWinButton(code), CbWin)
    /\ wiring' = "short"
    /\ mainPc' = "m_return"
    /\ UNCHANGED <<transfer_queue, time_queue, loop_runing, btask, state,
                   on_released, displayVars, dtask, d_loop_task, play_task, cur,
                   stop_i, localVars, proto_puts,
                   outcome_put, resolved>>
    /\ MainFrame

\* morse() lines 290-310 and 334: the head of the for loop.  With a symbol
\* left: rebind all buttons to LOSE, make a fresh timing queue and bind the
\* symbol's button to record into it (the release closures bound to the
\* buttons of earlier symbols stay and put into it too).  With none left:
\* transfer_to_win().
MorseIter ==
    /\ mainPc = "m_iter"
    /\ IF iter > 4
       THEN /\ transfer_queue' = SQ_put(transfer_queue, "game_win")
            /\ proto_puts' = Append(proto_puts, "game_win")
            /\ outcome_put' = TRUE
            /\ mainPc' = "m_return"
            /\ UNCHANGED <<time_queue, on_pressed, on_released, wiring>>
       ELSE /\ time_queue' = SQ_new
            /\ on_pressed' = WireAll(CbLose, MorseOrder[iter], CbPress(1))
            /\ on_released' = [on_released EXCEPT
                                 ![MorseOrder[iter]] = CbRelease(1)]
            /\ wiring' = "long"
            /\ mainPc' = "m_while"
            /\ UNCHANGED <<transfer_queue, proto_puts, outcome_put>>
    /\ UNCHANGED <<loop_runing, btask, state, displayVars, dtask, d_loop_task,
                   play_task, cur, stop_i, localVars, resolved>>
    /\ MainFrame

\* morse() lines 326-333 for the pair (press, release): a mismatch awaits
\* transfer_to_lose(); either way control reaches the head of the for loop.
MorseJudge(q, press, release) ==
    LET is_hold_long == IsLong(MorseHold(press, release))
        mismatch == (code[iter] = 1) # is_hold_long
    IN /\ transfer_queue' = IF mismatch THEN SQ_put(transfer_queue, "game_over")
                            ELSE transfer_queue
       /\ proto_puts' = IF mismatch THEN Append(proto_puts, "game_over")
                        ELSE proto_puts
       /\ outcome_put' = (outcome_put \/ mismatch)
       /\ time_queue' = q
       /\ press_time' = press
       /\ release_time' = release
       /\ iter' = iter + 1
       /\ mainPc' = "m_iter"

\* morse() lines 312-325: the while test (first, or after sleep(0.05)), the
\* return on a queued transfer, the discard of a leading release and the
\* two get() calls, the second of which suspends on an empty timing queue.
MorseWhile ==
    /\ mainPc \in {"m_while", "m_sleep"}
    /\ IF SQ_qsize(time_queue) < 2 /\ SQ_empty(transfer_queue)
       THEN /\ mainPc' = "m_sleep"
            /\ UNCHANGED <<transfer_queue, time_queue, iter, press_time,
                           release_time, proto_puts, outcome_put>>
       ELSE IF ~SQ_empty(transfer_queue)
       THEN /\ mainPc' = "m_return"
            /\ UNCHANGED <<transfer_queue, time_queue, iter, press_time,
                           release_time, proto_puts, outcome_put>>
       ELSE LET g1 == SQ_get(DropLeadingRelease(time_queue))
            IN IF SQ_empty(g1.q)
               THEN /\ mainPc' = "m_wait_rel"
                    /\ press_time' = g1.item.t
                    /\ time_queue' = g1.q
                    /\ UNCHANGED <<transfer_queue, iter, release_time, proto_puts, outcome_put>>
               ELSE MorseJudge(SQ_get(g1.q).q, g1.item.t, SQ_get(g1.q).item.t)
    /\ UNCHANGED <<loop_runing, buttonVars, displayVars, dtask, d_loop_task,
                   play_task, cur, stop_i, mode, code, long, up, right, wiring,
                   resolved>>
    /\ MainFrame

\* morse() line 325 resumed: put() on the timing queue has set the event
\* the second get() waits on.
MorseRelease ==
    /\ mainPc = "m_wait_rel"
    /\ time_queue._ev
    /\ ~SQ_empty(time_queue)
    /\ MorseJudge(SQ_get(time_queue).q, press_time, SQ_get(time_queue).item.t)
    /\ UNCHANGED <<loop_runing, buttonVars, displayVars, dtask, d_loop_task,
                   play_task, cur, stop_i, mode, code, long, up, right, wiring,
                   resolved>>
    /\ MainFrame

\* pitch() lines 337-367 and 390-392: draw the four bits, start the hint
\* tones, bind every button to LOSE; then mode 0 binds the selected button
\* to record into a fresh timing queue, mode 1 binds one button to WIN and
\* returns.
Pitch ==
    /\ mainPc = "pitch"
    /\ \E md \in {0, 1}, lg \in {0, 1}, u \in {0, 1}, r \in {0, 1} :
         /\ mode' = md
         /\ long' = lg
         /\ up' = u
         /\ right' = r
         /\ IF md = 0
            THEN /\ time_queue' = SQ_new
                 /\ on_pressed' = WireAll(CbLose, PitchGrid(u, r), CbPress(1))
                 /\ on_released' = [Stale(on_released) EXCEPT
                                      ![PitchGrid(u, r)] = CbRelease(1)]
                 /\ wiring' = "pitch0"
                 /\ mainPc' = "p_while"
            ELSE /\ on_pressed' = WireAll(CbLose, PitchPair(r), CbWin)
                 /\ wiring' = "pitch1"
                 /\ mainPc' = "p_return"
                 /\ UNCHANGED <<time_queue, on_released>>
    /\ play_task' = "playing"
    /\ proto_puts' = <<>>
    /\ outcome_put' = FALSE
    /\ UNCHANGED <<transfer_queue, loop_runing, btask, state, displayVars, dtask,
                   d_loop_task, cur, stop_i, code, iter, press_time,
                   release_time, resolved>>
    /\ MainFrame

\* pitch() lines 381-388 for the pair (press, release): classify the hold
\* and await transfer_to_lose() or transfer_to_win().
PitchJudge(q, press, release) ==
    LET is_hold_long == IsLong(PitchHold(press, release))
        out == IF (long = 1) # is_hold_long THEN "game_over" ELSE "game_win"
    IN /\ transfer_queue' = SQ_put(transfer_queue, out)
       /\ proto_puts' = Append(proto_puts, out)
       /\ outcome_put' = TRUE
       /\ time_queue' = q
       /\ press_time' = press
       /\ release_time' = release
       /\ mainPc' = "p_return"

\* pitch() lines 369-380: the while test (first, or after sleep(0.05)), the
\* look at time_queue._queue[0] (an IndexError on an empty list, which ends
\* main() and with it the program), the return on a queued transfer, and
\* the two get() calls, the second of which suspends on an empty queue.
PitchWhile ==
    /\ mainPc \in {"p_while", "p_sleep"}
    /\ IF SQ_qsize(time_queue) < 2 /\ SQ_empty(transfer_queue)
       THEN /\ mainPc' = "p_sleep"
            /\ UNCHANGED <<transfer_queue, time_queue, press_time, release_time,
                           proto_puts, outcome_put>>
       ELSE IF SQ_empty(time_queue)
       THEN /\ mainPc' = "crashed"
            /\ UNCHANGED <<transfer_queue, time_queue, press_time, release_time,
                           proto_puts, outcome_put>>
       ELSE IF ~SQ_empty(transfer_queue)
       THEN /\ mainPc' = "p_return"
            /\ time_queue' = DropLeadingRelease(time_queue)
            /\ UNCHANGED <<transfer_queue, press_time, release_time, proto_puts, outcome_put>>
       ELSE LET g1 == SQ_get(DropLeadingRelease(time_queue))
            IN IF SQ_empty(g1.q)
               THEN /\ mainPc' = "p_wait_rel"
                    /\ press_time' = g1.item.t
                    /\ time_queue' = g1.q
                    /\ UNCHANGED <<transfer_queue, release_time, proto_puts, outcome_put>>
               ELSE PitchJudge(SQ_get(g1.q).q, g1.item.t, SQ_get(g1.q).item.t)
    /\ UNCHANGED <<loop_runing, buttonVars, displayVars, dtask, d_loop_task,
                   play_task, cur, stop_i, mode, code, long, up, right, iter,
                   wiring, resolved>>
    /\ MainFrame

\* pitch() line 380 resumed: put() on the timing queue has set the event
\* the second get() waits on.
PitchRelease ==
    /\ mainPc = "p_wait_rel"
    /\ time_queue._ev
    /\ ~SQ_empty(time_queue)
    /\ PitchJudge(SQ_get(time_queue).q, press_time, SQ_get(time_queue).item.t)
    /\ UNCHANGED <<loop_runing, buttonVars, displayVars, dtask, d_loop_task,
                   play_task, cur, stop_i, mode, code, long, up, right, iter,
                   wiring, resolved>>
    /\ MainFrame

\* morse() / pitch() returns to main(): the frame with its locals and its
\* timing queue is gone, main() goes back to transfer_queue.get().
ChallengeReturn ==
    /\ mainPc \in {"m_return", "p_return"}
    /\ NoLocals
    /\ time_queue' = SQ_new
    /\ on_pressed' = Stale(on_pressed)
    /\ on_released' = Stale(on_released)
    /\ proto_puts' = <<>>
    /\ mainPc' = AtGet(transfer_queue)
    /\ UNCHANGED outcome_put
    /\ cur' = "none"
    /\ UNCHANGED <<transfer_queue, loop_runing, btask, state, displayVars, dtask,
                   d_loop_task, play_task, stop_i, wiring, resolved>>
    /\ MainFrame

\* -------------------------------------------------------- resolutions
\* "if play_task is not None: play_task.cancel()"
CancelPlay(t) == IF t = "None" THEN "None" ELSE "cancelled"

\* game_over() lines 202-204: cancel the tones, fill the display.
GameOver ==
    /\ mainPc = "game_over"
    /\ play_task' = CancelPlay(play_task)
    /\ display_out' = ShowFull
    /\ resolved' = resolved \cup {"game_over"}
    /\ stop_i' = 1
    /\ mainPc' = "stop_call"
    /\ UNCHANGED <<transfer_queue, time_queue, loop_runing,
                   buttonVars, minute, second, timeup_callback, is_pause, is_show,
                   dtask, d_loop_task, cur, localVars, wiring, proto_puts,
                   outcome_put>>
    /\ MainFrame

\* game_win() lines 215-216: cancel the tones.
GameWin ==
    /\ mainPc = "game_win"
    /\ play_task' = CancelPlay(play_task)
    /\ resolved' = resolved \cup {"game_win"}
    /\ stop_i' = 1
    /\ mainPc' = "stop_call"
    /\ UNCHANGED <<transfer_queue, time_queue, loop_runing,
                   buttonVars, displayVars, dtask, d_loop_task, cur, localVars,
                   wiring, proto_puts,
                   outcome_put>>
    /\ MainFrame

\* AsyncLooping.stop() called by game_over() / game_win() for the stop_i-th
\* target: clear loop_runing, await the loop task.  After the last stop():
\* game_win() pauses the display; both start their tune.
StopCall ==
    /\ mainPc = "stop_call"
    /\ IF stop_i > Len(StopTargets(cur))
       THEN /\ is_pause' = (IF cur = "game_win" THEN TRUE ELSE is_pause)
            /\ mainPc' = "sound"
            /\ UNCHANGED <<loop_runing, stop_i>>
       ELSE LET x == StopTargets(cur)[stop_i]
            IN /\ loop_runing' = [loop_runing EXCEPT ![x] = FALSE]
               /\ IF LoopExited(x)
                  THEN /\ stop_i' = stop_i + 1
                       /\ mainPc' = "stop_call"
                  ELSE /\ stop_i' = stop_i
                       /\ mainPc' = "stop_wait"
               /\ UNCHANGED is_pause
    /\ UNCHANGED <<transfer_queue, time_queue, buttonVars, minute,
                   second, timeup_callback, is_show, display_out, dtask,
                   d_loop_task, play_task, cur, localVars, wiring, proto_puts,
                   outcome_put, resolved>>
    /\ MainFrame

\* stop() resumed: the awaited loop task has finished.
StopWait ==
    /\ mainPc = "stop_wait"
    /\ LoopExited(StopTargets(cur)[stop_i])
    /\ stop_i' = stop_i + 1
    /\ mainPc' = "stop_call"
    /\ UNCHANGED <<transfer_queue, time_queue, loop_runing,
                   buttonVars, displayVars, dtask, d_loop_task, play_task, cur,
                   localVars, wiring, proto_puts,
                   outcome_put, resolved>>
    /\ MainFrame

\* death_sound() / win_sound() has finished: game_over() clears the display
\* and returns, game_win() goes on to sleep(600).
Sound ==
    /\ mainPc = "sound"
    /\ IF cur = "game_over"
       THEN /\ display_out' = ShowBlank
            /\ mainPc' = AtGet(transfer_queue)
            /\ cur' = "none"
       ELSE /\ mainPc' = "sleep600"
            /\ UNCHANGED <<display_out, cur>>
    /\ UNCHANGED <<transfer_queue, time_queue, loop_runing,
                   buttonVars, minute, second, timeup_callback, is_pause, is_show,
                   dtask, d_loop_task, play_task, stop_i, localVars, wiring,
                   proto_puts,
                   outcome_put, resolved>>
    /\ MainFrame

\* game_win() line 225: sleep(600) is over, game_win() returns.
Sleep600 ==
    /\ mainPc = "sleep600"
    /\ mainPc' = AtGet(transfer_queue)
    /\ cur' = "none"
    /\ UNCHANGED <<transfer_queue, time_queue, loop_runing,
                   buttonVars, displayVars, dtask, d_loop_task, play_task, stop_i,
                   localVars, wiring, proto_puts,
                   outcome_put, resolved>>
    /\ MainFrame

\* ------------------------------------------------------- specification
Next ==
    \/ PollButtons
    \/ DisplayLoop
    \/ MainGet
    \/ Game
    \/ Morse
    \/ MorseShort
    \/ MorseIter
    \/ MorseWhile
    \/ MorseRelease
    \/ Pitch
    \/ PitchWhile
    \/ PitchRelease
    \/ ChallengeReturn
    \/ GameOver
    \/ GameWin
    \/ StopCall
    \/ StopWait
    \/ Sound
    \/ Sleep600

Spec == Init /\ [][Next]_vars

\* The scheduler runs every runnable task: the orchestrator and the display
\* loop take their next step, and a button loop whose loop_runing was
\* cleared leaves its while.  Nothing obliges a user to press or release.
MainStep ==
    \/ MainGet
    \/ Game
    \/ Morse
    \/ MorseShort
    \/ MorseIter
    \/ MorseWhile
    \/ MorseRelease
    \/ Pitch
    \/ PitchWhile
    \/ PitchRelease
    \/ ChallengeReturn
    \/ GameOver
    \/ GameWin
    \/ StopCall
    \/ StopWait
    \/ Sound
    \/ Sleep600

PollExit(b) == Poll(b) /\ btask'[b] = "done"

FairSpec ==
    /\ Spec
    /\ WF_vars(MainStep)
    /\ WF_vars(DisplayLoop)
    /\ \A b \in Buttons : WF_vars(PollExit(b))

\* ------------------------------------- SimpleQueue with concurrent getters
\* get() from its while test on, for caller g: on an empty queue
\* "await self._ev.wait()" suspends the caller (a set event lets wait()
\* return at once, back to the while test); otherwise pop, clear, return.
GetBody(g) ==
    IF SQ_empty(hq)
    THEN /\ gpc' = [gpc EXCEPT ![g] = IF hq._ev THEN "woken" ELSE "waiting"]
         /\ rewaited' = (rewaited \/ (gpc[g] = "woken" /\ ~hq._ev))
         /\ UNCHANGED <<hq, delivered>>
    ELSE /\ hq' = SQ_get(hq).q
         /\ delivered' = Append(delivered, [g |-> g, item |-> SQ_get(hq).item])
         /\ gpc' = [gpc EXCEPT ![g] = "idle"]
         /\ UNCHANGED rewaited

\* a task calls get()
QGetCall(g) ==
    /\ gpc[g] = "idle"
    /\ GetBody(g)
    /\ UNCHANGED <<nput, gameVars>>

\* a task that set() has woken from self._ev.wait() runs again
QGetResume(g) ==
    /\ gpc[g] = "woken"
    /\ GetBody(g)
    /\ UNCHANGED <<nput, gameVars>>

\* put(item) with the items numbered in put order; Event.set() makes every
\* task waiting on the event runnable
QPut ==
    /\ nput < MaxItems
    /\ hq' = SQ_put(hq, nput + 1)
    /\ nput' = nput + 1
    /\ gpc' = [g \in 1..NumGetters |-> IF gpc[g] = "waiting" THEN "woken" ELSE gpc[g]]
    /\ UNCHANGED <<delivered, rewaited, gameVars>>

QNext ==
    \/ QPut
    \/ \E g \in 1..NumGetters : QGetCall(g)
    \/ \E g \in 1..NumGetters : QGetResume(g)

QSpec == Init /\ [][QNext]_vars

\* ------------------------------------------------------------- claims
\* the last item of the hand-off queue was put in this step and is an outcome
OutcomeAppended ==
    /\ SQ_qsize(transfer_queue') > 0
    /\ transfer_queue'._queue[SQ_qsize(transfer_queue')] \in Outcomes
    /\ SQ_qsize(transfer_queue') > SQ_qsize(transfer_queue)

\* C1: once a game_win / game_over has been put on the hand-off queue in a
\* round (from the start of its challenge on), no step puts a second one.
C1_OneOutcomePerRound ==
    [][(OutcomeAppended /\ wiring' # "init") => ~outcome_put]_vars

\* C2: when the long-code protocol returns it has put nothing, LOSE alone,
\* or WIN alone, and WIN exactly when all four symbols passed.
C2_LongCodeOutcome ==
    (mainPc = "m_return" /\ mode = 1)
        => /\ proto_puts \in {<<>>, <<"game_over">>, <<"game_win">>}
           /\ (proto_puts = <<"game_win">>) <=> (iter = 5 /\ "game_over" \notin
                                                  {proto_puts[i] : i \in 1..Len(proto_puts)})

\* C3: while the long-code protocol is inside an iteration and a transfer
\* put by another task waits on the hand-off queue, the protocol puts no
\* outcome of its own.
C3_LongCodePreempted ==
    [][(mainPc \in {"m_while", "m_sleep", "m_wait_rel"} /\ mode = 1
          /\ proto_puts = <<>> /\ ~SQ_empty(transfer_queue))
        => proto_puts' = <<>>]_vars

\* C4: while pitch mode 0 waits for timing records and a transfer put by
\* another task waits on the hand-off queue, the protocol neither raises
\* nor puts an outcome of its own.
C4_PitchPreempted ==
    [][(mainPc \in {"p_while", "p_sleep", "p_wait_rel"}
          /\ proto_puts = <<>> /\ ~SQ_empty(transfer_queue))
        => (mainPc' # "crashed" /\ proto_puts' = <<>>)]_vars

\* C5: when the countdown fires its time-up callback before any outcome was
\* resolved, the orchestrator eventually runs the LOSE resolution.
C5_TimeoutLeadsToLose ==
    (timed_out /\ resolved = {}) ~> ("game_over" \in resolved)

\* C6: short-code mode wires WIN to the button at index (sum(code) - 1) mod 4
\* of the order up-left, down-right, up-right, down-left and LOSE to the
\* other three, and a press under that wiring puts WIN for the designated
\* button and LOSE for any other.
C6_ShortCodeWiring ==
    [][/\ mainPc = "m_short"
          => \A b \in Buttons :
               on_pressed'[b] = IF b = MorseOrder[((Sum(code) - 1) % 4) + 1]
                                THEN CbWin ELSE CbLose
       /\ wiring = "short"
          => /\ Cardinality({b \in Buttons : on_pressed[b] = CbWin}) = 1
             /\ Cardinality({b \in Buttons : on_pressed[b] = CbLose}) = 3
             /\ \A b \in Buttons :
                  (~state[b] /\ state'[b])
                     => transfer_queue'._queue =
                          Append(transfer_queue._queue,
                                 IF on_pressed[b] = CbWin THEN "game_win"
                                 ELSE "game_over")]_vars

\* a short-code round was won by the press of the designated button
C6_Witness ==
    /\ wiring = "short"
    /\ resolved = {"game_win"}
    /\ \E b \in Buttons : state[b] /\ on_pressed[b] = CbWin

\* C7: pitch mode 0 judges the signed hold release - press: WIN when
\* (hold > 0.5 s) equals the long requirement, LOSE otherwise; a negative
\* hold with long = 1 is LOSE.
C7_PitchHoldClass ==
    (mainPc = "p_return" /\ proto_puts # <<>>)
        => LET hold == release_time - press_time
               is_long == 2 * hold > 1
           IN /\ proto_puts = <<IF is_long = (long = 1) THEN "game_win"
                                ELSE "game_over">>
              /\ (hold < 0 /\ long = 1) => proto_puts = <<"game_over">>

\* a negative hold was judged against long = 1
C7_Witness ==
    /\ mainPc = "p_return"
    /\ proto_puts = <<"game_over">>
    /\ release_time - press_time < 0
    /\ long = 1

\* C8: get() returns the items in put order, each item once.
C8_QueueFifo ==
    /\ Len(delivered) <= nput
    /\ \A i \in 1..Len(delivered) : delivered[i].item = i

\* every item was put and returned, to more than one caller
C8_Witness ==
    /\ Len(delivered) = MaxItems
    /\ \E i, j \in 1..Len(delivered) : delivered[i].g # delivered[j].g

\* C9: a get() on an empty queue does not return before a put(); one put
\* satisfies one get(); a woken get() that finds the queue empty waits
\* again; the event is clear whenever the queue is empty.
C9_QueueWake ==
    [][/\ Len(delivered') <= nput'
       /\ Len(delivered') <= Len(delivered) + 1
       /\ \A g \in 1..NumGetters :
            /\ (gpc[g] = "waiting" /\ gpc'[g] # "waiting")
                 => (gpc'[g] = "woken" /\ nput' = nput + 1)
            /\ (gpc[g] = "woken" /\ gpc'[g] # "woken" /\ SQ_empty(hq))
                 => (gpc'[g] = "waiting" /\ delivered' = delivered)
       /\ SQ_empty(hq') => ~hq'._ev]_vars

\* two callers waited, one put woke both, one got the item and the other
\* went back to waiting
C9_Witness ==
    /\ rewaited
    /\ Len(delivered) = 1
    /\ nput = 1
    /\ \E g \in 1..NumGetters : gpc[g] = "waiting"

\* C10: Button.state changes only with a sample that differs from it, the
\* step that changes it has the effect of one call of that edge's callback
\* (none if unset), and a poll that leaves the state alone calls nothing.
C10_Debounce ==
    [][/\ \A b \in Buttons :
            state'[b] # state[b]
               => LET cb == IF state'[b] THEN on_pressed[b] ELSE on_released[b]
                  IN /\ transfer_queue' = TransferAfter(cb)
                     /\ \E t \in 0..MaxTime : time_queue' = TimeAfter(cb, t)
                     /\ \A x \in Buttons \ {b} : state'[x] = state[x]
       /\ (state' = state /\ mainPc' = mainPc /\ dtask' = dtask)
            => (transfer_queue' = transfer_queue /\ time_queue' = time_queue)]_vars

\* a press edge called its callback once and the button is still held
C10_Witness ==
    /\ wiring = "init"
    /\ transfer_queue._queue = <<"game_over">>
    /\ Cardinality({b \in Buttons : state[b]}) = 1
    /\ \E b \in Buttons : state[b] /\ on_pressed[b] = CbLose /\ ran.b = {b}

\* ------------------------------------ DigitalDisplay on its own
\* Largest S of set_time(S) in the stand-alone display specification.
MaxSeconds == 62

\* A display after set_timeup_callback(transfer_to_lose), set_time(S) and
\* start(), for every S in 0..MaxSeconds; nothing else of the game has run.
DInit ==
    /\ transfer_queue = SQ_new
    /\ time_queue = SQ_new
    /\ loop_runing = [x \in Buttons \cup {"digital_display"} |-> TRUE]
    /\ btask = [b \in Buttons |-> "sleep"]
    /\ state = [b \in Buttons |-> FALSE]
    /\ on_pressed = [b \in Buttons |-> CbNone]
    /\ on_released = [b \in Buttons |-> CbNone]
    /\ display_out = ShowBlank
    /\ \E S \in 0..MaxSeconds :
         /\ minute = SetTime(S).minute
         /\ second = SetTime(S).second
    /\ timeup_callback = CbLose
    /\ is_pause = FALSE
    /\ is_show = TRUE
    /\ dtask = [i \in 1..MaxQueue |-> IF i = 1 THEN "start" ELSE "none"]
    /\ d_loop_task = 1
    /\ dlast = 0
    /\ play_task = "None"
    /\ mainPc = "get_wait"
    /\ cur = "none"
    /\ stop_i = 0
    /\ mode = 0
    /\ code = <<0, 0, 0, 0>>
    /\ long = 0
    /\ up = 0
    /\ right = 0
    /\ iter = 0
    /\ press_time = 0
    /\ release_time = 0
    /\ wiring = "init"
    /\ proto_puts = <<>>
    /\ outcome_put = FALSE
    /\ timed_out = FALSE
    /\ resolved = {}
    /\ ran = NoneRan
    /\ hq = SQ_new
    /\ gpc = [g \in 1..NumGetters |-> "idle"]
    /\ delivered = <<>>
    /\ nput = 0
    /\ rewaited = FALSE

\* pause(), called while the loop task is suspended
DPause ==
    /\ ~is_pause
    /\ is_pause' = TRUE
    /\ UNCHANGED <<transfer_queue, time_queue, loop_runing, buttonVars, minute,
                   second, timeup_callback, is_show, display_out, dtask,
                   d_loop_task, play_task, mainPc, cur, stop_i, localVars, wiring,
                   proto_puts, outcome_put, timed_out, resolved, ran, dlast,
                   queueVars>>

\* stop() up to its await: "self.loop_runing = False"
DStop ==
    /\ loop_runing["digital_display"]
    /\ loop_runing' = [loop_runing EXCEPT !["digital_display"] = FALSE]
    /\ UNCHANGED <<transfer_queue, time_queue, buttonVars, displayVars, dtask,
                   d_loop_task, play_task, mainPc, cur, stop_i, localVars, wiring,
                   proto_puts, outcome_put, timed_out, resolved, ran, dlast,
                   queueVars>>

DNext ==
    \/ DisplayLoop
    \/ DPause
    \/ DStop

DSpec == DInit /\ [][DNext]_vars

\* C11: every change of the counters takes exactly one second off the
\* duration they represent and is rendered, and neither counter is ever
\* negative.
C11_CountdownMonotone ==
    [][/\ (<<minute', second'>> # <<minute, second>>)
            => /\ SecondsPerMinute * minute' + second'
                    = SecondsPerMinute * minute + second - 1
               /\ display_out' = ShowTime(minute', second')
       /\ minute' >= 0
       /\ second' >= 0]_vars

\* C12: the loop run that finds 0:00 after its one-second sleep clears
\* loop_runing, calls the time-up callback and ends; the callback is called
\* in no other step, so once per start; a loop that has ended changes
\* neither the counters nor the display nor the hand-off queue.
C12_TimeUpOnce ==
    [][\A i \in 1..MaxQueue :
         /\ (dtask[i] = "sleep" /\ minute = 0 /\ second = 0
               /\ <<dtask, minute, second>>' # <<dtask, minute, second>>)
              => /\ transfer_queue' = SQ_put(transfer_queue, "game_over")
                 /\ dtask'[i] = "done"
                 /\ ~loop_runing'["digital_display"]
                 /\ <<minute, second, display_out>>' = <<minute, second, display_out>>
         /\ (dtask[i] # "none" /\ transfer_queue' # transfer_queue)
              => (dtask[i] = "sleep" /\ minute = 0 /\ second = 0 /\ ~timed_out)
         /\ dtask[i] = "done"
              => <<minute, second, display_out, is_show, transfer_queue, dtask>>'
                   = <<minute, second, display_out, is_show, transfer_queue, dtask>>]_vars

\* a countdown from more than a minute has reached 0:00 and fired
C12_Witness ==
    /\ timed_out
    /\ dtask[1] = "done"
    /\ ~loop_runing["digital_display"]
    /\ transfer_queue._queue = <<"game_over">>
    /\ display_out = ShowTime(0, 0)

\* the display's time-up callback has put its transfer in this step (a put
\* by a button comes with a change of Button.state, a put by a protocol with
\* a move of the orchestrator)
TimeUpFired ==
    /\ SQ_qsize(transfer_queue') > SQ_qsize(transfer_queue)
    /\ state' = state
    /\ mainPc' = mainPc

\* C13: once pause() has been called the time-up callback is not called.
C13_PausedNeverFires ==
    [][is_pause => ~TimeUpFired]_vars

\* C14: once pause() has been called the counters never change, and every
\* run of the loop from its half-second sleep flips is_show and renders the
\* unchanged counters when it is set, a blank display when it is not.
C14_PauseFreezes ==
    [][is_pause
         => /\ minute' = minute
            /\ second' = second
            /\ is_show' # is_show
                 => /\ \E i \in 1..MaxQueue : dtask[i] = "psleep"
                    /\ display_out' = IF is_show' THEN ShowTime(minute, second)
                                      ELSE ShowBlank
            /\ display_out' # display_out => is_show' # is_show]_vars

\* paused part-way through a countdown, with the blank phase on the display
C14_Witness ==
    /\ is_pause
    /\ ~is_show
    /\ display_out = ShowBlank
    /\ dtask[1] = "psleep"
    /\ second > 0

\* every loop activity ever started for instance x has left its while
AllLoopsExited(x) ==
    IF x = "digital_display"
    THEN \A i \in 1..MaxQueue : dtask[i] \in {"none", "done"}
    ELSE btask[x] = "done"

\* C15: when a stop() of a resolution returns, the loop of the instance it
\* stopped has exited (also when it had exited before the call), and a loop
\* that has exited samples nothing and calls nothing.
C15_StopWaitsForExit ==
    [][/\ (mainPc \in {"stop_call", "stop_wait"} /\ stop_i' = stop_i + 1)
            => AllLoopsExited(StopTargets(cur)[stop_i])
       /\ \A b \in Buttons :
            btask[b] = "done" => (btask'[b] = "done" /\ state'[b] = state[b])
       /\ AllLoopsExited("digital_display") => ~TimeUpFired]_vars

\* a LOSE resolution of a running round has returned from all five stop()
\* calls: the display loop exited because it was stopped, not by time-up
C15_Witness ==
    /\ cur = "game_over"
    /\ mainPc = "sound"
    /\ wiring # "init"
    /\ ~timed_out
    /\ dtask[1] = "done"
    /\ \A b \in Buttons : btask[b] = "done"

\* the loop activities of the display that have not left their while
LiveDisplayLoops == {i \in 1..MaxQueue : dtask[i] \in {"start", "sleep", "psleep"}}

\* C16: no instance ever has two loop activities alive (a button is started
\* once, at module level; the display by every game()).
C16_OneLoopPerInstance ==
    Cardinality(LiveDisplayLoops) <= 1

\* C17: when a game begins after a resolution has run, the button pollers
\* are running.
C17_PollersRunInNextGame ==
    (mainPc = "game" /\ resolved # {}) => \A b \in Buttons : btask[b] = "sleep"

\* C20: a challenge protocol starts, and creates its tone task, only while no
\* resolution has run.
C20_NoChallengeAfterResolution ==
    /\ mainPc \in {"morse", "pitch"} => resolved = {}
    /\ (play_task = "playing" /\ resolved # {})
         => \E b \in Buttons : btask[b] = "sleep"

\* C18: main takes the oldest continuation of the hand-off queue, only when
\* no phase is executing, and executes it until it returns; what is
\* enqueued meanwhile waits in the queue.
C18_SinglePhase ==
    [][/\ cur' # cur
            => \/ /\ cur = "none"
                  /\ mainPc \in {"get", "get_wait"}
                  /\ ~SQ_empty(transfer_queue)
                  /\ cur' = Head(transfer_queue._queue)
                  /\ transfer_queue'._queue = Tail(transfer_queue._queue)
               \/ /\ cur # "none"
                  /\ cur' = "none"
                  /\ mainPc' \in {"get", "get_wait"}
       /\ (cur # "none" /\ cur' = cur)
            => \/ transfer_queue'._queue = transfer_queue._queue
               \/ /\ SQ_qsize(transfer_queue') = SQ_qsize(transfer_queue) + 1
                  /\ SubSeq(transfer_queue'._queue, 1, SQ_qsize(transfer_queue))
                       = transfer_queue._queue
       /\ (cur' = "none") <=> (mainPc' \in {"get", "get_wait"})]_vars

\* two pollers have enqueued transfers while the LOSE resolution executes
C18_Witness ==
    /\ cur = "game_over"
    /\ mainPc = "stop_wait"
    /\ SQ_qsize(transfer_queue) = 2
    /\ transfer_queue._queue[1] # transfer_queue._queue[2]

\* the four button loops and every display loop activity have exited
AllStopped ==
    /\ \A b \in Buttons : AllLoopsExited(b)
    /\ AllLoopsExited("digital_display")

\* C19: game_over() cancels the tone task and fills the display before any
\* stop(); it stops the four buttons and the display in that order; the
\* failure tone begins only when all five loops have exited; when the tone
\* ends the display is cleared and no loop is running.
C19_LoseResolution ==
    [][cur = "game_over"
         => /\ mainPc = "game_over"
                 => /\ play_task' = CancelPlay(play_task)
                    /\ display_out' = ShowFull
                    /\ loop_runing' = loop_runing
                    /\ mainPc' = "stop_call"
            /\ (mainPc = "stop_call" /\ loop_runing' # loop_runing)
                 => /\ stop_i <= 5
                    /\ loop_runing' =
                         [loop_runing EXCEPT
                            ![(StopOrder \o <<"digital_display">>)[stop_i]] = FALSE]
            /\ (mainPc # "sound" /\ mainPc' = "sound") => (stop_i = 6 /\ AllStopped)
            /\ (mainPc = "sound" /\ mainPc' # "sound")
                 => (display_out' = ShowBlank /\ AllStopped')]_vars

\* the LOSE resolution of a round that had started its tones has completed
C19_Witness ==
    /\ resolved = {"game_over"}
    /\ mainPc = "get_wait"
    /\ play_task = "cancelled"
    /\ display_out = ShowBlank
    /\ AllStopped

====
